---------------------------- MODULE Spec2Model ----------------------------
(***************************************************************************)
(* Model of the Yahoo key-metrics extractor (src/get_data.py).             *)
(*                                                                         *)
(* Texts are sequences of one-character strings, so that the regular       *)
(* expressions and the str methods of the source are computed character    *)
(* by character.  A float is the pair <<m, e>> meaning m / 10^e, without   *)
(* trailing fractional zeros (so equal floats are equal pairs).  Python's  *)
(* None is the empty tuple.  A dict is a function from its present keys.   *)
(***************************************************************************)
EXTENDS Integers, Sequences, FiniteSets, TLC

VARIABLES
    pc,        \* position of the run inside get_key_metrics and its callees
    symbol,    \* the argument of get_key_metrics
    record,    \* `metrics` of get_key_metrics (the returned dict)
    smetrics,  \* `metrics` of _get_summary_metrics
    gmetrics,  \* `metrics` of _get_growth_estimates
    exc,       \* the exception in flight (<<>> when none)
    sOutcome,  \* the summary phase: "none" (not run), "ok", "status" (non-200),
               \* "transport" (the fetch raised), "locator" (a locator raised)
    gOutcome,  \* the analysis phase: "none", "ok", "status", "transport"
    priceBy,   \* <<k, text>>: the first price method that accepted, and its text
    matched,   \* whether some locator query of the run has returned an element
    fn,        \* unit runs: the function applied ("" in a pipeline run)
    arg,       \* unit runs: its arguments
    out        \* unit runs: its result

vars == <<pc, symbol, record, smetrics, gmetrics, exc, sOutcome, gOutcome,
          priceBy, matched, fn, arg, out>>

None == <<>>

-----------------------------------------------------------------------------
(* Characters and str methods *)

DigitChars == <<"0", "1", "2", "3", "4", "5", "6", "7", "8", "9">>

LowerChars == <<"a", "b", "c", "d", "e", "f", "g", "h", "i", "j", "k", "l", "m",
                "n", "o", "p", "q", "r", "s", "t", "u", "v", "w", "x", "y", "z">>

UpperChars == <<"A", "B", "C", "D", "E", "F", "G", "H", "I", "J", "K", "L", "M",
                "N", "O", "P", "Q", "R", "S", "T", "U", "V", "W", "X", "Y", "Z">>

Range(s) == {s[i] : i \in DOMAIN s}

IsDigit(c) == c \in Range(DigitChars)

IsAlphaChar(c) == c \in Range(LowerChars) \cup Range(UpperChars)

IsSpace(c) == c = " "

IndexIn(s, c) == CHOOSE i \in DOMAIN s : s[i] = c

DigitVal(c) == IndexIn(DigitChars, c) - 1

UpperChar(c) == IF c \in Range(LowerChars) THEN UpperChars[IndexIn(LowerChars, c)] ELSE c

LowerChar(c) == IF c \in Range(UpperChars) THEN LowerChars[IndexIn(UpperChars, c)] ELSE c

\* str.upper()
Upper(t) == [i \in DOMAIN t |-> UpperChar(t[i])]

\* str.lower()
Lower(t) == [i \in DOMAIN t |-> LowerChar(t[i])]

\* str.isalpha(): non-empty and every character a letter
IsAlpha(t) == Len(t) > 0 /\ \A i \in DOMAIN t : IsAlphaChar(t[i])

\* `sub in t`
Contains(sub, t) ==
    \E i \in 1..(Len(t) - Len(sub) + 1) : SubSeq(t, i, i + Len(sub) - 1) = sub

\* get_text(strip=True) of a single text node: str.strip()
Strip(t) ==
    LET keep == {i \in DOMAIN t : ~IsSpace(t[i])}
    IN  IF keep = {} THEN <<>>
        ELSE SubSeq(t, CHOOSE i \in keep : \A j \in keep : i <= j,
                       CHOOSE i \in keep : \A j \in keep : i >= j)

\* ' '.join(list)
RECURSIVE JoinSpace(_)
JoinSpace(ts) ==
    IF Len(ts) = 0 THEN <<>>
    ELSE IF Len(ts) = 1 THEN ts[1]
    ELSE ts[1] \o <<" ">> \o JoinSpace(Tail(ts))

\* re.sub that removes nothing
KeepAll(t) == t

\* re.sub(r'[^\d.-]', '', t)
RECURSIVE KeepNumeric(_)
KeepNumeric(t) ==
    IF Len(t) = 0 THEN <<>>
    ELSE IF IsDigit(t[1]) \/ t[1] \in {".", "-"} THEN <<t[1]>> \o KeepNumeric(Tail(t))
    ELSE KeepNumeric(Tail(t))

-----------------------------------------------------------------------------
(* float() *)

RECURSIVE Pow10(_)
Pow10(n) == IF n = 0 THEN 1 ELSE 10 * Pow10(n - 1)

\* the integer written by a sequence of digits
RECURSIVE DigitsToInt(_)
DigitsToInt(ds) ==
    IF Len(ds) = 0 THEN 0
    ELSE 10 * DigitsToInt(SubSeq(ds, 1, Len(ds) - 1)) + DigitVal(ds[Len(ds)])

\* <<m, e>> without trailing fractional zeros
RECURSIVE Normalize(_, _)
Normalize(m, e) ==
    IF e > 0 /\ m % 10 = 0 THEN Normalize(m \div 10, e - 1) ELSE <<m, e>>

\* float(t) accepts, of the texts over digits, "." and "-": an optional sign,
\* then digits with at most one point and at least one digit
FloatOk(t) ==
    LET body == IF Len(t) > 0 /\ t[1] = "-" THEN Tail(t) ELSE t
        dots == {i \in DOMAIN body : body[i] = "."}
    IN  /\ \A i \in DOMAIN body : IsDigit(body[i]) \/ body[i] = "."
        /\ Cardinality(dots) <= 1
        /\ \E i \in DOMAIN body : IsDigit(body[i])

\* float(t) for a text FloatOk accepts
Float(t) ==
    LET neg  == Len(t) > 0 /\ t[1] = "-"
        body == IF neg THEN Tail(t) ELSE t
        dots == {i \in DOMAIN body : body[i] = "."}
        dot  == IF dots = {} THEN Len(body) + 1 ELSE CHOOSE i \in dots : TRUE
        ip   == SubSeq(body, 1, dot - 1)
        fp   == SubSeq(body, dot + 1, Len(body))
        mag  == DigitsToInt(ip \o fp)
    IN  Normalize(IF neg THEN 0 - mag ELSE mag, Len(fp))

\* `x > y` for a float x and an integer y
Greater(x, y) == x[1] > y * Pow10(x[2])

\* truthiness of an Optional[float]: None and 0.0 are false
Truthy(x) == x # None /\ x[1] # 0

-----------------------------------------------------------------------------
(* dict *)

EmptyDict == <<>>

\* dict.get(k)
Get(d, k) == IF k \in DOMAIN d THEN d[k] ELSE None

\* d[k] = v
Put(d, k, v) == [x \in (DOMAIN d) \cup {k} |-> IF x = k THEN v ELSE d[x]]

UpdateReplace(a, b) == b

\* a.update(b)
Update(a, b) == [x \in (DOMAIN a) \cup (DOMAIN b) |-> IF x \in DOMAIN b THEN b[x] ELSE a[x]]

-----------------------------------------------------------------------------
(* Value normalizer *)

\* ['N/A', 'NA', '--', '', 'NULL']
SentinelsClean == {<<"N", "/", "A">>, <<"N", "A">>, <<"-", "-">>, <<>>, <<"N", "U", "L", "L">>}

\* ['N/A', 'NA', '--']
SentinelsLocator == {<<"N", "/", "A">>, <<"N", "A">>, <<"-", "-">>}

\* ['-', '.', '-.']
Degenerate == {<<"-">>, <<".">>, <<"-", ".">>}

CleanNumericValue(value) ==
    IF value = <<>> \/ Upper(value) \in SentinelsClean THEN None
    ELSE LET cleaned == KeepNumeric(value)
         IN  IF cleaned # <<>> /\ cleaned \notin Degenerate
             THEN IF FloatOk(cleaned) THEN Float(cleaned) ELSE None
             ELSE None

CleanPercentageValue(value) ==
    IF value = <<>> \/ Upper(value) \in SentinelsClean THEN None
    ELSE LET cleaned == KeepNumeric(value)
         IN  IF cleaned # <<>> /\ cleaned \notin Degenerate
             THEN IF FloatOk(cleaned) THEN Float(cleaned) ELSE None
             ELSE None

\* what float(t) raises: nothing for a text it accepts, else ValueError
FloatError(t) == IF FloatOk(t) THEN "" ELSE "ValueError"

\* a handler for TypeError alone
CleanCaughtTypeErrorOnly == {"TypeError"}

\* except (ValueError, TypeError)
CleanCaught == {"ValueError", "TypeError"}

\* a call of _clean_numeric_value: the exception that leaves it ("" for none)
\* and the value it returns
CleanNumericRun(value) ==
    IF value = <<>> \/ Upper(value) \in SentinelsClean
    THEN [raised |-> "", value |-> None]
    ELSE LET cleaned == KeepNumeric(value)
             e == IF cleaned # <<>> /\ cleaned \notin Degenerate
                  THEN FloatError(cleaned) ELSE ""
         IN  IF e # "" /\ e \notin CleanCaught
             THEN [raised |-> e, value |-> None]
             ELSE [raised |-> "", value |-> CleanNumericValue(value)]

\* a call of _clean_percentage_value
CleanPercentageRun(value) ==
    IF value = <<>> \/ Upper(value) \in SentinelsClean
    THEN [raised |-> "", value |-> None]
    ELSE LET cleaned == KeepNumeric(value)
             e == IF cleaned # <<>> /\ cleaned \notin Degenerate
                  THEN FloatError(cleaned) ELSE ""
         IN  IF e # "" /\ e \notin CleanCaught
             THEN [raised |-> e, value |-> None]
             ELSE [raised |-> "", value |-> CleanPercentageValue(value)]

-----------------------------------------------------------------------------
(* Regular expressions *)

\* greedy \d* from position i: the index of its last character (i - 1 when empty)
RECURSIVE DigitsEnd(_, _)
DigitsEnd(t, i) == IF i <= Len(t) /\ IsDigit(t[i]) THEN DigitsEnd(t, i + 1) ELSE i - 1

\* greedy \s* from position i
RECURSIVE SpacesEnd(_, _)
SpacesEnd(t, i) == IF i <= Len(t) /\ IsSpace(t[i]) THEN SpacesEnd(t, i + 1) ELSE i - 1

\* \d+\.?\d* from position i, where t[i] is a digit: the index of its last character
NumberEnd(t, i) ==
    LET a == DigitsEnd(t, i)
        b == IF a + 1 <= Len(t) /\ t[a + 1] = "." THEN a + 1 ELSE a
    IN  DigitsEnd(t, b + 1)

\* re.findall(r'\d+\.?\d*', t), scanning from position i
RECURSIVE FindNumbersFrom(_, _)
FindNumbersFrom(t, i) ==
    IF i > Len(t) THEN <<>>
    ELSE IF IsDigit(t[i])
         THEN <<SubSeq(t, i, NumberEnd(t, i))>> \o FindNumbersFrom(t, NumberEnd(t, i) + 1)
         ELSE FindNumbersFrom(t, i + 1)

FindNumbers(t) == FindNumbersFrom(t, 1)

\* re.findall(r'\d+\.?\d*%', t), scanning from position i
RECURSIVE FindPercentagesFrom(_, _)
FindPercentagesFrom(t, i) ==
    IF i > Len(t) THEN <<>>
    ELSE IF IsDigit(t[i]) /\ NumberEnd(t, i) + 1 <= Len(t) /\ t[NumberEnd(t, i) + 1] = "%"
         THEN <<SubSeq(t, i, NumberEnd(t, i) + 1)>> \o FindPercentagesFrom(t, NumberEnd(t, i) + 2)
         ELSE FindPercentagesFrom(t, i + 1)

FindPercentages(t) == FindPercentagesFrom(t, 1)

\* re.match(r'^\d{1,4}\.\d{2}$', t)
MatchesPricePattern(t) ==
    LET a == DigitsEnd(t, 1)
    IN  /\ a \in 1..4
        /\ Len(t) = a + 3
        /\ t[a + 1] = "."
        /\ IsDigit(t[a + 2]) /\ IsDigit(t[a + 3])

\* r'(\d+\.?\d*)\s*\((\d+\.?\d*%?)\)' matched at position i: <<group 1, group 2>>, or <<>>
DividendMatchAt(t, i) ==
    IF ~(i <= Len(t) /\ IsDigit(t[i])) THEN <<>>
    ELSE LET e1 == NumberEnd(t, i)
             s  == SpacesEnd(t, e1 + 1)
         IN  IF ~(s + 2 <= Len(t) /\ t[s + 1] = "(" /\ IsDigit(t[s + 2])) THEN <<>>
             ELSE LET e2 == NumberEnd(t, s + 2)
                      e3 == IF e2 + 1 <= Len(t) /\ t[e2 + 1] = "%" THEN e2 + 1 ELSE e2
                  IN  IF e3 + 1 <= Len(t) /\ t[e3 + 1] = ")"
                      THEN <<SubSeq(t, i, e1), SubSeq(t, s + 2, e3)>>
                      ELSE <<>>

\* re.search of the dividend pattern: the leftmost match, or <<>>
DividendSearch(t) ==
    LET hits == {i \in DOMAIN t : DividendMatchAt(t, i) # <<>>}
    IN  IF hits = {} THEN <<>>
        ELSE DividendMatchAt(t, CHOOSE i \in hits : \A j \in hits : i <= j)

-----------------------------------------------------------------------------
(* Dividend sub-routine *)

\* both groups read from the second capture
DividendGroupsSecondOnly(m) == <<KeepNumeric(m[2]), m[2]>>

\* match.group(1), match.group(2) in the order the code reads them
DividendGroups(m) == <<m[1], m[2]>>

ParseDividendInfo(dividend_text, metrics) ==
    LET match == DividendSearch(dividend_text)
    IN  IF match # <<>>
        THEN LET g == DividendGroups(match)
             IN  Put(Put(metrics, "forward_dividend_rate", Float(g[1])),
                     "forward_dividend_yield", CleanPercentageValue(g[2]))
        ELSE LET numbers     == FindNumbers(dividend_text)
                 percentages == FindPercentages(dividend_text)
                 m1 == IF numbers # <<>> /\ ~Truthy(Get(metrics, "forward_dividend_rate"))
                       THEN Put(metrics, "forward_dividend_rate", Float(numbers[1]))
                       ELSE metrics
             IN  IF percentages # <<>> /\ ~Truthy(Get(m1, "forward_dividend_yield"))
                 THEN Put(m1, "forward_dividend_yield", CleanPercentageValue(percentages[1]))
                 ELSE m1

-----------------------------------------------------------------------------
(* Bounds and inputs *)

\* longest list of elements a price method is handed
MaxElems == 2

\* longest list of quote-statistics items
MaxItems == 1

\* longest list of table rows of the summary page
MaxRows == 1

\* most tables on the analysis page
MaxTables == 1

\* most data rows of a growth table
MaxGrowthRows == 2

SeqsUpTo(S, n) == UNION {[1..k -> S] : k \in 0..n}

\* an optional element: None, or <<x>>
Opt(S) == {None} \cup {<<x>> : x \in S}

Symbols == {<<"a", "a", "p", "l">>, <<"M", "S", "F", "T">>}

\* response.status_code other than 200, as printed
StatusCodes == {"404", "503"}

\* str(e) of the exceptions raised by the fetch or by a locator
ExcMessages == {"timed out"}

\* text of the span with data-testid="qsp-price"
QspTexts == {<<" ", "2", "0", "1", ".", "1", "8", " ">>, <<"0", ".", "0", "0">>, <<"-", "3", ".", "5", "0">>, <<"N", "/", "A">>}

\* fin-streamer elements with data-field="regularMarketPrice"
StreamerElements ==
    { [value |-> <<"4", "5", ".", "6", "7">>, text |-> <<>>],
      [value |-> <<>>, text |-> <<"0", ".", "5", "0">>],
      [value |-> <<>>, text |-> <<"N", "/", "A">>] }

\* texts of the spans of the quote-price section and of the quote header
SpanTexts == {<<"1", "5", "0", ".", "2", "5">>, <<"0", ".", "9", "9">>, <<"1", ",", "2", "3", "4", ".", "5", "6">>}

\* span and div elements of the document: their string and their parent
\* (None, or the parent's data-testid and class list)
FallbackElements ==
    { [string |-> <<"9", "9", ".", "9", "9">>, parent |-> <<[testid |-> <<>>, class |-> <<<<"P", "r", "i", "c", "e">>>>]>>],
      [string |-> <<"9", "9", ".", "9", "9">>, parent |-> <<[testid |-> <<>>, class |-> <<<<"v", "o", "l">>>>]>>],
      [string |-> <<"9", "9", ".", "9", "9">>, parent |-> <<[testid |-> <<"m", "a", "r", "k", "e", "t", "-", "x">>, class |-> <<>>]>>],
      [string |-> <<"0", ".", "7", "5">>, parent |-> <<[testid |-> <<>>, class |-> <<<<"P", "r", "i", "c", "e">>>>]>>],
      [string |-> <<"7", "7", ".", "1", "0">>, parent |-> None],
      [string |-> <<"7">>, parent |-> <<[testid |-> <<"q", "u", "o", "t", "e">>, class |-> <<>>]>>] }

\* texts of the elements with the three data-testid values
PeTexts == {<<"2", "8", ".", "5">>, <<"-", "1", "2", ".", "5">>, <<"N", "/", "A">>}

FwdTexts == {<<"0", ".", "9", "6", " ", "(", "1", ".", "4", "5", "%", ")">>, <<"1", ".", "4", "5", "%">>, <<"-", "-">>}

TdTexts == {<<"1", ".", "0", "0", " ", "(", "0", ".", "5", "%", ")">>}

\* items (li, tr, div) of the quote-statistics sections: their text, and
\* whether reading the item raises
StatItems ==
    { [text |-> <<"P", "E", " ", "R", "a", "t", "i", "o", " ", "(", "T", "T", "M", ")", " ", "2", "8", ".", "5">>, raises |-> FALSE],
      [text |-> <<"1", " ", "P", "/", "E", " ", "R", "a", "t", "i", "o", " ", "(", "t", "r", "a", "i", "l", "i", "n", "g", ")", " ", "-", "1", "2", ".", "5">>, raises |-> FALSE],
      [text |-> <<"P", "E", " ", "R", "a", "t", "i", "o", " ", "(", "T", "T", "M", ")", " ", "N", "/", "A">>, raises |-> FALSE],
      [text |-> <<"F", "o", "r", "w", "a", "r", "d", " ", "D", "i", "v", "i", "d", "e", "n", "d", " ", "&", " ", "Y", "i", "e", "l", "d", " ", "1", ".", "0", "0", " ", "(", "0", ".", "5", "%", ")">>, raises |-> FALSE],
      [text |-> <<"D", "i", "v", "i", "d", "e", "n", "d", " ", "Y", "i", "e", "l", "d", " ", "0", ".", "5", "%">>, raises |-> FALSE],
      [text |-> <<"P", "E", " ", "R", "a", "t", "i", "o", " ", "(", "T", "T", "M", ")", " ", "2", "8", ".", "5">>, raises |-> TRUE] }

\* rows of the tables of the summary page: their cells, and whether reading
\* the row raises
TableRows ==
    { [cells |-> <<<<"P", "E", " ", "R", "a", "t", "i", "o", " ", "(", "T", "T", "M", ")">>, <<"N", "/", "A">>>>, raises |-> FALSE],
      [cells |-> <<<<"T", "r", "a", "i", "l", "i", "n", "g", " ", "P", "/", "E", " ", "R", "a", "t", "i", "o">>, <<"-", "1", "2", ".", "5">>>>, raises |-> FALSE],
      [cells |-> <<<<"F", "o", "r", "w", "a", "r", "d", " ", "A", "n", "n", "u", "a", "l", " ", "D", "i", "v", "i", "d", "e", "n", "d", " ", "R", "a", "t", "e">>, <<"1", ".", "0", "0">>>>, raises |-> FALSE],
      [cells |-> <<<<"F", "o", "r", "w", "a", "r", "d", " ", "A", "n", "n", "u", "a", "l", " ", "D", "i", "v", "i", "d", "e", "n", "d", " ", "Y", "i", "e", "l", "d">>, <<"0", ".", "5", "%">>>>, raises |-> FALSE],
      [cells |-> <<<<"F", "o", "r", "w", "a", "r", "d", " ", "A", "n", "n", "u", "a", "l", " ", "D", "i", "v", "i", "d", "e", "n", "d", " ", "R", "a", "t", "e">>, <<"-", "0", ".", "5", "0">>>>, raises |-> FALSE],
      [cells |-> <<<<"F", "o", "r", "w", "a", "r", "d", " ", "D", "i", "v", "i", "d", "e", "n", "d", " ", "&", " ", "Y", "i", "e", "l", "d">>, <<"0", ".", "9", "6", " ", "(", "1", ".", "4", "5", "%", ")">>>>, raises |-> FALSE],
      [cells |-> <<<<"V", "o", "l", "u", "m", "e">>>>, raises |-> FALSE],
      [cells |-> <<<<"P", "E", " ", "R", "a", "t", "i", "o", " ", "(", "T", "T", "M", ")">>, <<"2", "8", ".", "5">>>>, raises |-> TRUE] }

-----------------------------------------------------------------------------
(* Current-price locator: the five methods of _extract_current_price *)

\* a check that lets every number through
PriceOkAnyNumber(price, threshold) == price # None

\* `if price and price > threshold`
PriceOk(price, threshold) == Truthy(price) /\ Greater(price, threshold)

\* Method 1: the text accepted from the qsp-price span (<<text>>), or None
Method1(el) ==
    IF el = None THEN None
    ELSE LET price_text == Strip(el[1])
         IN  IF PriceOk(CleanNumericValue(price_text), 0) THEN <<price_text>> ELSE None

\* Method 2: the first fin-streamer whose value attribute, or else text, is a price
RECURSIVE Method2(_)
Method2(elements) ==
    IF elements = <<>> THEN None
    ELSE LET element == elements[1]
             value   == IF element.value # <<>> THEN element.value ELSE Strip(element.text)
         IN  IF value # <<>> /\ PriceOk(CleanNumericValue(value), 0) THEN <<value>>
             ELSE Method2(Tail(elements))

\* Methods 3 and 4: the first span whose text has the price format and is > 1
RECURSIVE FirstPriceSpan(_)
FirstPriceSpan(spans) ==
    IF spans = <<>> THEN None
    ELSE LET text == Strip(spans[1])
         IN  IF MatchesPricePattern(text) /\ PriceOk(CleanNumericValue(text), 1) THEN <<text>>
             ELSE FirstPriceSpan(Tail(spans))

\* Method 3: `section` is None or <<spans of the quote-price section>>
Method3(section) == IF section = None THEN None ELSE FirstPriceSpan(section[1])

\* Method 4: `header` is None or <<spans of the quote header>>
Method4(header) == IF header = None THEN None ELSE FirstPriceSpan(header[1])

PriceKeywords == {<<"p", "r", "i", "c", "e">>, <<"q", "u", "o", "t", "e">>, <<"m", "a", "r", "k", "e", "t">>}

\* the parent has a data-testid or a class, and they name a price keyword
ParentOk(parent) ==
    /\ parent # None
    /\ (parent[1].testid # <<>> \/ parent[1].class # <<>>)
    /\ LET parent_attrs == parent[1].testid \o <<" ">> \o JoinSpace(parent[1].class)
       IN  \E keyword \in PriceKeywords : Contains(keyword, Lower(parent_attrs))

\* Method 5: of the elements whose string has the price format, the first
\* whose price is > 1 and whose parent names a price keyword
RECURSIVE Method5(_)
Method5(elements) ==
    IF elements = <<>> THEN None
    ELSE LET element == elements[1]
             text    == Strip(element.string)
         IN  IF /\ MatchesPricePattern(element.string)
                /\ PriceOk(CleanNumericValue(text), 1)
                /\ ParentOk(element.parent)
             THEN <<text>>
             ELSE Method5(Tail(elements))

-----------------------------------------------------------------------------
(* P/E and dividend locators *)

TestIdKeys == <<"pe_ratio_ttm", "forward_dividend_yield", "forward_dividend_yield">>

\* one iteration of the loop of _extract_by_testid: `element` is what
\* soup.find returned for the test id mapped to metric_key
ByTestidStep(element, metric_key, metrics) ==
    IF element = None THEN metrics
    ELSE LET value == Strip(element[1])
         IN  IF value # <<>> /\ Upper(value) \notin SentinelsLocator
             THEN IF metric_key = "forward_dividend_yield"
                  THEN ParseDividendInfo(value, metrics)
                  ELSE Put(metrics, metric_key, CleanNumericValue(value))
             ELSE metrics

\* _extract_by_testid over the three lookups found[1..3], up to (not
\* including) iteration `stop`
RECURSIVE ExtractByTestid(_, _, _)
ExtractByTestid(found, stop, metrics) ==
    IF stop <= 1 THEN metrics
    ELSE ByTestidStep(found[stop - 1], TestIdKeys[stop - 1],
                      ExtractByTestid(found, stop - 1, metrics))

FirstNumber(numbers) == numbers[1]

\* numbers[-1]
LastNumber(numbers) == numbers[Len(numbers)]

\* the body of the item loop of _extract_from_quote_stats
QuoteStatsItem(item, metrics) ==
    IF item.raises THEN metrics
    ELSE LET text == Lower(Strip(item.text))
         IN  IF Contains(<<"p", "e", " ", "r", "a", "t", "i", "o">>, text) \/ Contains(<<"p", "/", "e", " ", "r", "a", "t", "i", "o">>, text)
             THEN IF Contains(<<"t", "t", "m">>, text) \/ Contains(<<"t", "r", "a", "i", "l", "i", "n", "g">>, text)
                  THEN LET numbers == FindNumbers(item.text)
                       IN  IF numbers # <<>>
                           THEN Put(metrics, "pe_ratio_ttm", CleanNumericValue(LastNumber(numbers)))
                           ELSE metrics
                  ELSE metrics
             ELSE IF Contains(<<"d", "i", "v", "i", "d", "e", "n", "d">>, text) /\ Contains(<<"y", "i", "e", "l", "d">>, text)
                  THEN ParseDividendInfo(Strip(item.text), metrics)
                  ELSE metrics

\* _extract_from_quote_stats over the items of the sections, in order
RECURSIVE ExtractFromQuoteStats(_, _)
ExtractFromQuoteStats(items, metrics) ==
    IF items = <<>> THEN metrics
    ELSE ExtractFromQuoteStats(Tail(items), QuoteStatsItem(items[1], metrics))

\* the body of the row loop of _extract_from_tables
TablesRow(row, metrics) ==
    IF Len(row.cells) < 2 \/ row.raises THEN metrics
    ELSE LET label == Lower(Strip(row.cells[1]))
             value == Strip(row.cells[2])
         IN  IF /\ Contains(<<"p", "e", " ", "r", "a", "t", "i", "o">>, label) \/ Contains(<<"p", "/", "e", " ", "r", "a", "t", "i", "o">>, label)
                /\ Contains(<<"t", "t", "m">>, label) \/ Contains(<<"t", "r", "a", "i", "l", "i", "n", "g">>, label)
             THEN Put(metrics, "pe_ratio_ttm", CleanNumericValue(value))
             ELSE IF Contains(<<"f", "o", "r", "w", "a", "r", "d", " ", "a", "n", "n", "u", "a", "l", " ", "d", "i", "v", "i", "d", "e", "n", "d", " ", "r", "a", "t", "e">>, label)
             THEN Put(metrics, "forward_dividend_rate", CleanNumericValue(value))
             ELSE IF Contains(<<"f", "o", "r", "w", "a", "r", "d", " ", "a", "n", "n", "u", "a", "l", " ", "d", "i", "v", "i", "d", "e", "n", "d", " ", "y", "i", "e", "l", "d">>, label)
             THEN Put(metrics, "forward_dividend_yield", CleanPercentageValue(value))
             ELSE IF Contains(<<"d", "i", "v", "i", "d", "e", "n", "d">>, label) /\ Contains(<<"y", "i", "e", "l", "d">>, label)
                     /\ Contains(<<"f", "o", "r", "w", "a", "r", "d">>, label)
             THEN ParseDividendInfo(value, metrics)
             ELSE metrics

\* _extract_from_tables over the rows of the tables, in order
RECURSIVE ExtractFromTables(_, _)
ExtractFromTables(rows, metrics) ==
    IF rows = <<>> THEN metrics
    ELSE ExtractFromTables(Tail(rows), TablesRow(rows[1], metrics))

-----------------------------------------------------------------------------
(* Growth-estimate locator.  A table is the sequence of its rows, a row the *)
(* sequence of the texts of its cells; the header row is the first row.    *)

GrowthKeywords == {<<"n", "e", "x", "t", " ", "y", "e", "a", "r">>, <<"n", "e", "x", "t", " ", "5", " ", "y", "e", "a", "r", "s">>, <<"2", "0", "2", "5">>, <<"2", "0", "2", "4">>}

BenchmarkWords == {<<"S", "&", "P">>, <<"5", "0", "0">>, <<"S", "E", "C", "T", "O", "R">>, <<"I", "N", "D", "U", "S", "T", "R", "Y">>}

\* the width of the first cell a company row may have
MaxCompanyLen == 6

\* next_year_col_idx + 1: the first header that names a keyword, or 0 for None
NextYearColumn(headers) ==
    LET hits == {i \in DOMAIN headers :
                    \E keyword \in GrowthKeywords : Contains(keyword, Lower(headers[i]))}
    IN  IF hits = {} THEN 0 ELSE CHOOSE i \in hits : \A j \in hits : i <= j

IsCompanyRowAnyShort(first_cell_text, sym) ==
    \/ first_cell_text = Upper(sym)
    \/ Len(first_cell_text) <= MaxCompanyLen /\ IsAlpha(first_cell_text)

\* the test of lines 327-330 on the upper-cased first cell
IsCompanyRow(first_cell_text, sym) ==
    \/ first_cell_text = Upper(sym)
    \/ /\ Len(first_cell_text) <= MaxCompanyLen
       /\ IsAlpha(first_cell_text)
       /\ \A w \in BenchmarkWords : ~Contains(w, first_cell_text)

\* a row loop that returns at the first company row, whatever its cell
GrowthRowNoSkip(table, i, col, sym) ==
    LET hits == {k \in i..Len(table) :
                    Len(table[k]) >= col /\ IsCompanyRow(Upper(Strip(table[k][1])), sym)}
    IN  IF hits = {} THEN 0 ELSE CHOOSE k \in hits : \A j \in hits : k <= j

\* the row loop of _extract_from_growth_table from row i on, for column col:
\* the index of the row at which the loop returns, or 0 when it runs out
RECURSIVE GrowthRow(_, _, _, _)
GrowthRow(table, i, col, sym) ==
    IF i > Len(table) THEN 0
    ELSE LET cells == table[i]
         IN  IF Len(cells) >= col /\ IsCompanyRow(Upper(Strip(cells[1])), sym)
             THEN LET growth_value == Strip(cells[col])
                  IN  IF growth_value # <<>> /\ Upper(growth_value) \notin SentinelsLocator
                      THEN i
                      ELSE GrowthRow(table, i + 1, col, sym)
             ELSE GrowthRow(table, i + 1, col, sym)

\* _extract_from_growth_table: the row whose cell is returned (0 for none) and
\* the value returned
GrowthTableResult(table, sym) ==
    IF table = <<>> THEN [row |-> 0, value |-> None]
    ELSE LET headers == [i \in DOMAIN table[1] |-> Strip(table[1][i])]
             col     == NextYearColumn(headers)
             row     == IF col = 0 THEN 0 ELSE GrowthRow(table, 1, col, sym)
         IN  [row   |-> row,
              value |-> IF row = 0 THEN None
                        ELSE CleanPercentageValue(Strip(table[row][col]))]

ExtractFromGrowthTable(table, sym) == GrowthTableResult(table, sym).value

\* table.get_text(): the texts of the cells, each followed by the line break
\* that separates the tags
RECURSIVE RowText(_)
RowText(cells) == IF cells = <<>> THEN <<>> ELSE cells[1] \o <<"\n">> \o RowText(Tail(cells))

RECURSIVE TableText(_)
TableText(table) == IF table = <<>> THEN <<>> ELSE RowText(table[1]) \o TableText(Tail(table))

\* Method 2: the first table naming "growth" and "next year" that gives a value
RECURSIVE GrowthMethod2(_, _)
GrowthMethod2(tables, sym) ==
    IF tables = <<>> THEN None
    ELSE LET table_text == Lower(TableText(tables[1].table))
             result     == ExtractFromGrowthTable(tables[1].table, sym)
         IN  IF /\ Contains(<<"g", "r", "o", "w", "t", "h">>, table_text) /\ Contains(<<"n", "e", "x", "t", " ", "y", "e", "a", "r">>, table_text)
                /\ result # None
             THEN result
             ELSE GrowthMethod2(Tail(tables), sym)

\* Method 3: the first table whose parent names "estimate" and "growth", or
\* that names "next year", and that gives a value
RECURSIVE GrowthMethod3(_, _)
GrowthMethod3(tables, sym) ==
    IF tables = <<>> THEN None
    ELSE LET table_text  == Lower(TableText(tables[1].table))
             parent_text == Lower(tables[1].around \o TableText(tables[1].table))
             result      == ExtractFromGrowthTable(tables[1].table, sym)
         IN  IF /\ \/ Contains(<<"e", "s", "t", "i", "m", "a", "t", "e">>, parent_text) /\ Contains(<<"g", "r", "o", "w", "t", "h">>, parent_text)
                   \/ Contains(<<"n", "e", "x", "t", " ", "y", "e", "a", "r">>, table_text)
                /\ result # None
             THEN result
             ELSE GrowthMethod3(Tail(tables), sym)

\* _extract_growth_estimate_table.  doc.section: whether the growthEstimate
\* section exists, and its first table (None or <<table>>); doc.tables: the
\* tables of the page, each with the text of its parent around it
ExtractGrowthEstimateTable(doc, sym) ==
    LET r1 == IF doc.section.has /\ doc.section.table # None
              THEN ExtractFromGrowthTable(doc.section.table[1], sym)
              ELSE None
        r2 == GrowthMethod2(doc.tables, sym)
    IN  IF r1 # None THEN r1
        ELSE IF r2 # None THEN r2
        ELSE GrowthMethod3(doc.tables, sym)

GrowthResultOrError(growth_estimate, metrics) ==
    IF growth_estimate # None THEN Put(metrics, "growth_estimate_next_year", growth_estimate)
    ELSE Put(metrics, "error", <<"No growth estimate found", "">>)

\* lines 247-248: the estimate is stored only when there is one
GrowthResult(growth_estimate, metrics) ==
    IF growth_estimate # None THEN Put(metrics, "growth_estimate_next_year", growth_estimate)
    ELSE metrics

\* tables of the analysis page
TableGrowth == << <<<<>>, <<"N", "e", "x", "t", " ", "Y", "e", "a", "r">>>>, <<<<"S", "&", "P", " ", "5", "0", "0">>, <<"5", ".", "0">>>>, <<<<"A", "A", "P", "L">>, <<"8", ".", "4", "%">>>> >>

TableNoValue == << <<<<"G", "r", "o", "w", "t", "h">>, <<"N", "e", "x", "t", " ", "Y", "e", "a", "r">>>>, <<<<"M", "S", "F", "T">>, <<"N", "/", "A">>>> >>

TableOther == << <<<<"N", "a", "m", "e">>, <<"P", "r", "i", "c", "e">>>>, <<<<"A", "A", "P", "L">>, <<"-", "2", ".", "5">>>> >>

\* the tables of the page, each with the text of its parent around it
PageTables ==
    { [table |-> TableGrowth, around |-> <<>>],
      [table |-> TableNoValue, around |-> <<>>],
      [table |-> TableOther, around |-> <<"G", "r", "o", "w", "t", "h", " ", "E", "s", "t", "i", "m", "a", "t", "e", "s">>] }

\* the parsed analysis pages
AnalysisDocs ==
    [ section : {[has |-> FALSE, table |-> None]}
                   \cup {[has |-> TRUE, table |-> t] : t \in Opt({TableGrowth})},
      tables  : SeqsUpTo(PageTables, MaxTables) ]

-----------------------------------------------------------------------------
(* The run of get_key_metrics *)

MetricKeys == {"current_price", "pe_ratio_ttm", "forward_dividend_rate",
               "forward_dividend_yield", "growth_estimate_next_year"}

RecordKeys == {"symbol", "error"} \cup MetricKeys

Init ==
    /\ pc = "idle"
    /\ symbol = <<>>
    /\ record = EmptyDict
    /\ smetrics = EmptyDict
    /\ gmetrics = EmptyDict
    /\ exc = None
    /\ sOutcome = "none"
    /\ gOutcome = "none"
    /\ priceBy = None
    /\ matched = FALSE
    /\ fn = ""
    /\ arg = <<>>
    /\ out = <<>>

unitVars == <<fn, arg, out>>

\* the dict built at the top of get_key_metrics
NewRecord(sym) ==
    [k \in RecordKeys |-> IF k = "symbol" THEN Upper(sym) ELSE None]

GetKeyMetrics ==
    /\ pc = "idle"
    /\ \E sym \in Symbols :
          /\ symbol' = sym
          /\ record' = NewRecord(sym)
    /\ pc' = "summary_fetch"
    /\ UNCHANGED <<smetrics, gmetrics, exc, sOutcome, gOutcome, priceBy,
                   matched, unitVars>>

FailedStatusSilent(prefix, code) == EmptyDict

\* `return {'error': f"...: Status code {response.status_code}"}`
FailedStatus(prefix, code) == [error |-> <<prefix, code>>]

\* session.get and BeautifulSoup of _get_summary_metrics
SummaryFetch ==
    /\ pc = "summary_fetch"
    /\ \/ \E code \in StatusCodes :
             /\ smetrics' = FailedStatus("Failed to retrieve summary data: Status code ", code)
             /\ sOutcome' = "status"
             /\ pc' = "summary_return"
             /\ exc' = exc
       \/ \E msg \in ExcMessages :
             /\ exc' = <<msg>>
             /\ sOutcome' = "transport"
             /\ pc' = "summary_except"
             /\ smetrics' = smetrics
       \/ /\ sOutcome' = "ok"
          /\ pc' = "price1"
          /\ UNCHANGED <<smetrics, exc>>
    /\ UNCHANGED <<symbol, record, gmetrics, gOutcome, priceBy, matched, unitVars>>

\* what a price method does with the text it accepted (<<text>>) or with None:
\* on acceptance current_price is set and the locator returns
PriceStep(k, accepted, found) ==
    /\ matched' = (matched \/ found)
    /\ IF accepted # None
       THEN /\ smetrics' = Put(smetrics, "current_price", CleanNumericValue(accepted[1]))
            /\ priceBy' = IF priceBy = None THEN <<k, accepted[1]>> ELSE priceBy
            /\ pc' = "testid"
       ELSE /\ pc' = IF k = 5 THEN "testid" ELSE <<"price2", "price3", "price4", "price5">>[k]
            /\ UNCHANGED <<smetrics, priceBy>>
    /\ UNCHANGED <<symbol, record, gmetrics, exc, sOutcome, gOutcome, unitVars>>

PriceMethod1NoReturn ==
    /\ pc = "price1"
    /\ \E el \in Opt(QspTexts) :
          /\ matched' = (matched \/ el # None)
          /\ IF Method1(el) # None
             THEN /\ smetrics' = Put(smetrics, "current_price", CleanNumericValue(Method1(el)[1]))
                  /\ priceBy' = IF priceBy = None THEN <<1, Method1(el)[1]>> ELSE priceBy
             ELSE UNCHANGED <<smetrics, priceBy>>
    /\ pc' = "price2"
    /\ UNCHANGED <<symbol, record, gmetrics, exc, sOutcome, gOutcome, unitVars>>

PriceMethod1 ==
    /\ pc = "price1"
    /\ \E el \in Opt(QspTexts) : PriceStep(1, Method1(el), el # None)

PriceMethod2 ==
    /\ pc = "price2"
    /\ \E elements \in SeqsUpTo(StreamerElements, MaxElems) :
          PriceStep(2, Method2(elements), elements # <<>>)

PriceMethod3 ==
    /\ pc = "price3"
    /\ \E section \in Opt(SeqsUpTo(SpanTexts, MaxElems)) :
          PriceStep(3, Method3(section), section # None)

PriceMethod4 ==
    /\ pc = "price4"
    /\ \E header \in Opt(SeqsUpTo(SpanTexts, MaxElems)) :
          PriceStep(4, Method4(header), header # None)

PriceMethod5 ==
    /\ pc = "price5"
    /\ \E elements \in SeqsUpTo(FallbackElements, MaxElems) :
          PriceStep(5, Method5(elements), elements # <<>>)

\* an exception inside _extract_current_price is caught there (line 153)
PriceRaises ==
    /\ pc \in {"price1", "price2", "price3", "price4", "price5"}
    /\ pc' = "testid"
    /\ UNCHANGED <<symbol, record, smetrics, gmetrics, exc, sOutcome, gOutcome, priceBy,
                   matched, unitVars>>

\* an exception leaves a locator that does not catch it
LocatorRaises ==
    /\ exc' = <<"locator failed">>
    /\ sOutcome' = "locator"
    /\ pc' = "summary_except"

\* _extract_by_testid; stop <= 3: soup.find of iteration `stop` raises
ByTestid ==
    /\ pc = "testid"
    /\ \E pe \in Opt(PeTexts), fwd \in Opt(FwdTexts), td \in Opt(TdTexts), stop \in 1..4 :
          /\ smetrics' = ExtractByTestid(<<pe, fwd, td>>, stop, smetrics)
          /\ matched' = (matched \/ \E i \in 1..(stop - 1) : <<pe, fwd, td>>[i] # None)
          /\ IF stop <= 3 THEN LocatorRaises
             ELSE pc' = "quote_stats" /\ UNCHANGED <<exc, sOutcome>>
    /\ UNCHANGED <<symbol, record, gmetrics, gOutcome, priceBy, unitVars>>

\* _extract_from_quote_stats, or its find_all raising
QuoteStats ==
    /\ pc = "quote_stats"
    /\ \/ \E items \in SeqsUpTo(StatItems, MaxItems) :
             /\ smetrics' = ExtractFromQuoteStats(items, smetrics)
             /\ matched' = (matched \/ items # <<>>)
             /\ pc' = "tables"
             /\ UNCHANGED <<exc, sOutcome>>
       \/ LocatorRaises /\ UNCHANGED <<smetrics, matched>>
    /\ UNCHANGED <<symbol, record, gmetrics, gOutcome, priceBy, unitVars>>

\* _extract_from_tables, or its find_all raising
Tables ==
    /\ pc = "tables"
    /\ \/ \E rows \in SeqsUpTo(TableRows, MaxRows) :
             /\ smetrics' = ExtractFromTables(rows, smetrics)
             /\ matched' = (matched \/ rows # <<>>)
             /\ pc' = "summary_return"
             /\ UNCHANGED <<exc, sOutcome>>
       \/ LocatorRaises /\ UNCHANGED <<smetrics, matched>>
    /\ UNCHANGED <<symbol, record, gmetrics, gOutcome, priceBy, unitVars>>

\* `except Exception as e` of _get_summary_metrics
SummaryExcept ==
    /\ pc = "summary_except"
    /\ smetrics' = Put(smetrics, "error", <<"Error in summary metrics: ", exc[1]>>)
    /\ exc' = None
    /\ pc' = "summary_return"
    /\ UNCHANGED <<symbol, record, gmetrics, sOutcome, gOutcome, priceBy,
                   matched, unitVars>>

MergeSummaryStopOnError ==
    /\ pc = "summary_return"
    /\ record' = Update(record, smetrics)
    /\ pc' = IF "error" \in DOMAIN smetrics THEN "done" ELSE "growth_fetch"
    /\ UNCHANGED <<symbol, smetrics, gmetrics, exc, sOutcome, gOutcome, priceBy,
                   matched, unitVars>>

\* metrics.update(summary_metrics), then on to the analysis phase
MergeSummary ==
    /\ pc = "summary_return"
    /\ record' = Update(record, smetrics)
    /\ pc' = "growth_fetch"
    /\ UNCHANGED <<symbol, smetrics, gmetrics, exc, sOutcome, gOutcome, priceBy,
                   matched, unitVars>>

\* session.get and BeautifulSoup of _get_growth_estimates
GrowthFetch ==
    /\ pc = "growth_fetch"
    /\ \/ \E code \in StatusCodes :
             /\ gmetrics' = FailedStatus("Failed to retrieve analysis data: Status code ", code)
             /\ gOutcome' = "status"
             /\ pc' = "growth_return"
             /\ exc' = exc
       \/ \E msg \in ExcMessages :
             /\ exc' = <<msg>>
             /\ gOutcome' = "transport"
             /\ pc' = "growth_except"
             /\ gmetrics' = gmetrics
       \/ /\ gOutcome' = "ok"
          /\ pc' = "growth_extract"
          /\ UNCHANGED <<gmetrics, exc>>
    /\ UNCHANGED <<symbol, record, smetrics, sOutcome, priceBy, matched, unitVars>>

\* _extract_growth_estimate_table and the storing of its result
GrowthExtract ==
    /\ pc = "growth_extract"
    /\ \E doc \in AnalysisDocs :
          /\ gmetrics' = GrowthResult(ExtractGrowthEstimateTable(doc, symbol), gmetrics)
          /\ matched' = (matched \/ doc.section.has \/ doc.tables # <<>>)
    /\ pc' = "growth_return"
    /\ UNCHANGED <<symbol, record, smetrics, exc, sOutcome, gOutcome, priceBy,
                   unitVars>>

\* `except Exception as e` of _get_growth_estimates
GrowthExcept ==
    /\ pc = "growth_except"
    /\ gmetrics' = Put(gmetrics, "error", <<"Error in growth estimates: ", exc[1]>>)
    /\ exc' = None
    /\ pc' = "growth_return"
    /\ UNCHANGED <<symbol, record, smetrics, sOutcome, gOutcome, priceBy,
                   matched, unitVars>>

\* a merge that keeps the first error written
MergeGrowthFirstErrorWins ==
    /\ pc = "growth_return"
    /\ record' = IF Get(record, "error") # None
                 THEN Put(Update(record, gmetrics), "error", record["error"])
                 ELSE Update(record, gmetrics)
    /\ pc' = "done"
    /\ UNCHANGED <<symbol, smetrics, gmetrics, exc, sOutcome, gOutcome, priceBy,
                   matched, unitVars>>

\* metrics.update(growth_metrics) and `return metrics`
MergeGrowth ==
    /\ pc = "growth_return"
    /\ record' = Update(record, gmetrics)
    /\ pc' = "done"
    /\ UNCHANGED <<symbol, smetrics, gmetrics, exc, sOutcome, gOutcome, priceBy,
                   matched, unitVars>>

-----------------------------------------------------------------------------
(* Presentation layer: main() of app.py on the record of a run *)

\* truthiness of an Optional[str] held as <<prefix, detail>>
TruthyText(e) == e # None /\ (e[1] # "" \/ e[2] # "")

\* the keys calculate_additional_metrics sets
AdditionalMetricKeys(metrics) ==
    (IF Truthy(Get(metrics, "pe_ratio_ttm")) /\ Truthy(Get(metrics, "growth_estimate_next_year"))
     THEN {"peg_ratio", "estimated_pb_ratio"} ELSE {})
    \cup
    (IF /\ Truthy(Get(metrics, "forward_dividend_rate"))
        /\ Truthy(Get(metrics, "current_price"))
        /\ Truthy(Get(metrics, "pe_ratio_ttm"))
     THEN {"estimated_eps", "dividend_coverage_ratio"} ELSE {})

\* the six st.metric widgets: each shows its value, or "N/A" for a falsy one
MainWidgets(metrics) ==
    [k \in MetricKeys \cup {"peg_ratio"} |->
        IF k = "peg_ratio"
        THEN IF "peg_ratio" \in AdditionalMetricKeys(metrics) THEN "value" ELSE "N/A"
        ELSE IF Truthy(Get(metrics, k)) THEN "value" ELSE "N/A"]

\* main() after get_key_metrics has returned: st.error and return on an
\* error, else the widgets and the derived metrics
AppMain ==
    /\ pc = "done"
    /\ out' = IF TruthyText(Get(record, "error"))
              THEN [error |-> Get(record, "error"), widgets |-> EmptyDict, derived |-> {}]
              ELSE [error |-> None, widgets |-> MainWidgets(record),
                    derived |-> AdditionalMetricKeys(record)]
    /\ fn' = "main"
    /\ pc' = "rendered"
    /\ UNCHANGED <<symbol, record, smetrics, gmetrics, exc, sOutcome, gOutcome, priceBy,
                   matched, arg>>

Next ==
    \/ GetKeyMetrics
    \/ SummaryFetch
    \/ PriceMethod1
    \/ PriceMethod2
    \/ PriceMethod3
    \/ PriceMethod4
    \/ PriceMethod5
    \/ PriceRaises
    \/ ByTestid
    \/ QuoteStats
    \/ Tables
    \/ SummaryExcept
    \/ MergeSummary
    \/ GrowthFetch
    \/ GrowthExtract
    \/ GrowthExcept
    \/ MergeGrowth
    \/ AppMain

Spec == Init /\ [][Next]_vars

-----------------------------------------------------------------------------
(* Properties of the run of get_key_metrics *)

InSummaryFailure == sOutcome \in {"status", "transport", "locator"}

\* an error text <<prefix, detail>> is a non-empty string
NonEmptyError(e) == e # None /\ (e[1] # "" \/ e[2] # "")

\* C1: whatever the two fetches do (200, another status, a transport
\* exception), get_key_metrics does not raise - an exception in flight is
\* always at the handler of the phase that raised it - and the record has
\* exactly the seven keys, with symbol the upper-cased argument.
C1_CompleteRecord ==
    /\ pc # "idle" => DOMAIN record = RecordKeys /\ record["symbol"] = Upper(symbol)
    /\ exc # None => pc \in {"summary_except", "growth_except"}
    /\ pc = "done" => exc = None /\ sOutcome # "none" /\ gOutcome # "none"

C1_Witness ==
    /\ pc = "done"
    /\ sOutcome = "transport"
    /\ gOutcome = "status"
    /\ symbol = <<"a", "a", "p", "l">>
    /\ record["symbol"] = <<"A", "A", "P", "L">>

\* C2: when both fetches return a non-200 status, the returned record has
\* all five metric fields absent and a non-empty error.
C2_BothFetchesFail ==
    (pc = "done" /\ sOutcome = "status" /\ gOutcome = "status")
        => /\ \A k \in MetricKeys : Get(record, k) = None
           /\ NonEmptyError(Get(record, "error"))

C2_Witness ==
    /\ pc = "done"
    /\ sOutcome = "status"
    /\ gOutcome = "status"
    /\ Get(record, "error") = <<"Failed to retrieve analysis data: Status code ", "503">>

\* C3 as stated: a failed summary phase (non-200, or an exception) never
\* keeps the analysis phase from running: the analysis fetch has been
\* attempted when the run returns, an estimate it found is in
\* growth_estimate_next_year, and the error the summary phase set is still
\* the record's error.
C3_SummaryErrorAlwaysKept ==
    (pc = "done" /\ InSummaryFailure)
        => /\ gOutcome # "none"
           /\ "growth_estimate_next_year" \in DOMAIN gmetrics
                 => Get(record, "growth_estimate_next_year")
                       = gmetrics["growth_estimate_next_year"]
           /\ "error" \in DOMAIN smetrics
           /\ Get(record, "error") = Get(smetrics, "error")

\* C3 amended: a failed summary phase never keeps the analysis phase from
\* running: the analysis fetch has been attempted when the run returns, an
\* estimate it found is in growth_estimate_next_year, and the error the
\* summary phase set is still the record's error unless the analysis phase
\* fails too (then the record carries an error, the analysis phase's).
C3_AnalysisRunsAfterFailure ==
    (pc = "done" /\ InSummaryFailure)
        => /\ gOutcome # "none"
           /\ "error" \in DOMAIN smetrics
           /\ "growth_estimate_next_year" \in DOMAIN gmetrics
                 => /\ Get(record, "growth_estimate_next_year")
                          = gmetrics["growth_estimate_next_year"]
                    /\ Get(record, "error") = smetrics["error"]
           /\ gOutcome = "ok" => Get(record, "error") = smetrics["error"]
           /\ gOutcome # "ok" => Get(record, "error") = Get(gmetrics, "error")
           /\ NonEmptyError(Get(record, "error"))

C3_Witness ==
    /\ pc = "done"
    /\ sOutcome = "status"
    /\ Get(record, "growth_estimate_next_year") = <<84, 1>>
    /\ Get(record, "error") = <<"Failed to retrieve summary data: Status code ", "404">>

\* C4: when both fetches return 200 and no phase raises, the record's error
\* is absent whatever the locators find or miss; and when no locator query
\* returned anything, every metric field is absent too.
C4_MissingDataIsNoError ==
    (pc = "done" /\ sOutcome = "ok" /\ gOutcome = "ok")
        => /\ Get(record, "error") = None
           /\ ~matched => \A k \in MetricKeys : Get(record, k) = None

C4_Witness ==
    /\ pc = "done"
    /\ sOutcome = "ok"
    /\ gOutcome = "ok"
    /\ ~matched
    /\ \A k \in MetricKeys : Get(record, k) = None

\* C5: the price methods run in the order 1..5 and the locator stops at the
\* first that accepts: a later method runs only while none has accepted, and
\* the price method k accepted is current_price whatever methods k+1..5
\* would have found; "201.18" in the qsp-price span gives 201.18 by method 1.
C5_FirstPriceMethodWins ==
    /\ pc \in {"price1", "price2", "price3", "price4", "price5"}
          => priceBy = None /\ "current_price" \notin DOMAIN smetrics
    /\ priceBy # None
          => /\ Get(smetrics, "current_price") = CleanNumericValue(priceBy[2])
             /\ PriceOk(Get(smetrics, "current_price"), IF priceBy[1] <= 2 THEN 0 ELSE 1)
             /\ pc = "done" => Get(record, "current_price") = Get(smetrics, "current_price")
    /\ priceBy = <<1, <<"2", "0", "1", ".", "1", "8">>>> => Get(smetrics, "current_price") = <<20118, 2>>

C5_Witness ==
    /\ pc = "done"
    /\ priceBy = <<1, <<"2", "0", "1", ".", "1", "8">>>>
    /\ Get(record, "current_price") = <<20118, 2>>

PeKept ==
    (pc \in {"quote_stats", "tables"} /\ Get(smetrics, "pe_ratio_ttm") # None)
        => Get(smetrics', "pe_ratio_ttm") = Get(smetrics, "pe_ratio_ttm")

\* C6: once a higher-priority P/E strategy has set pe_ratio_ttm, a
\* lower-priority strategy (quote-statistics scan, table scan) leaves it as
\* it is.
C6_PeFirstStrategyWins == [][PeKept]_vars

DividendKept ==
    pc \in {"quote_stats", "tables"}
        => \A k \in {"forward_dividend_rate", "forward_dividend_yield"} :
              Get(smetrics, k) # None => Get(smetrics', k) = Get(smetrics, k)

\* C7: once forward_dividend_rate or forward_dividend_yield has been set by
\* an earlier locator, a later locator (quote-statistics scan, table scan)
\* leaves the field as it is.
C7_DividendNeverOverwritten == [][DividendKept]_vars

-----------------------------------------------------------------------------
(* Properties of the presentation layer *)

\* C14: an error on the record never aborts the presentation: when main()
\* has run on a record that carries a non-empty error, a widget has been
\* drawn for every metric field the record holds.
C14_ErrorNeverAbortsRender ==
    (pc = "rendered" /\ NonEmptyError(Get(record, "error")))
        => \A k \in MetricKeys :
              Get(record, k) # None => k \in DOMAIN out.widgets /\ out.widgets[k] = "value"

\* C15: current_price, in the summary dict and in the record of a run, is
\* absent or a number > 0, whichever price method stored it, and it is > 1
\* when method 3, 4 or 5 stored it.
C15_PriceAbsentOrPositive ==
    /\ \A d \in {smetrics, record} :
          LET p == Get(d, "current_price") IN p = None \/ p[1] > 0
    /\ (pc \in {"done", "rendered"} /\ priceBy # None)
          => LET p == Get(record, "current_price")
             IN  /\ p # None
                 /\ priceBy[1] \in {3, 4, 5} => p[1] > Pow10(p[2])

C15_Witness ==
    /\ pc = "done"
    /\ priceBy # None
    /\ priceBy[1] = 5
    /\ Get(record, "current_price") = <<9999, 2>>

\* C16: in the record a run returns, forward_dividend_rate and
\* forward_dividend_yield are each absent or a number >= 0, whichever
\* locator stored them and whatever the text was.
C16_DividendNonNegative ==
    pc \in {"done", "rendered"}
        => \A k \in {"forward_dividend_rate", "forward_dividend_yield"} :
              LET v == Get(record, k) IN v = None \/ v[1] >= 0

\* C19: an exception raised inside one locator of the summary phase is
\* caught at that locator's call: it never reaches the handler of the phase,
\* the locator after it is the next to run, and neither the summary dict nor
\* the record gets an error from it.
C19_LocatorExceptionContained ==
    /\ exc # <<"locator failed">>
    /\ sOutcome # "locator"
    /\ \A d \in {smetrics, record} :
          Get(d, "error") # <<"Error in summary metrics: ", "locator failed">>

\* C20: the record's error is merged last-writer-wins: when both phases
\* report an error the record carries the analysis phase's message, when
\* only the summary phase reports one a successful analysis phase leaves it
\* as it was, and with no phase reporting one it stays absent.
C20_ErrorLastWriterWins ==
    pc \in {"done", "rendered"}
        => LET error == Get(record, "error")
           IN  /\ (InSummaryFailure /\ gOutcome # "ok")
                     => /\ NonEmptyError(error)
                        /\ error[1] \in {"Failed to retrieve analysis data: Status code ",
                                         "Error in growth estimates: "}
               /\ (InSummaryFailure /\ gOutcome = "ok")
                     => /\ NonEmptyError(error)
                        /\ error = Get(smetrics, "error")
                        /\ error[1] \in {"Failed to retrieve summary data: Status code ",
                                         "Error in summary metrics: "}
               /\ (~InSummaryFailure /\ gOutcome = "ok") => error = None
               /\ (~InSummaryFailure /\ gOutcome # "ok") => error = Get(gmetrics, "error")

C20_Witness ==
    /\ pc = "done"
    /\ sOutcome = "locator"
    /\ gOutcome = "transport"
    /\ Get(smetrics, "error") = <<"Error in summary metrics: ", "locator failed">>
    /\ Get(record, "error") = <<"Error in growth estimates: ", "timed out">>

-----------------------------------------------------------------------------
(* Unit runs: one function of the extractor applied to one input *)

\* longest list of quote-statistics items of a unit run
MaxUnitItems == 2

UnitSymbols == Symbols \cup {<<"s", "e", "c", "t", "o", "r">>}

\* numbers as they are written, with the float each one is
UnitNumbers ==
    { [text |-> <<"0", ".", "9", "6">>, val |-> <<96, 2>>],
      [text |-> <<"1", ".", "4", "5">>, val |-> <<145, 2>>],
      [text |-> <<"2", "8", ".", "5">>, val |-> <<285, 1>>],
      [text |-> <<"1", "0", ".">>, val |-> <<10, 0>>],
      [text |-> <<"2">>, val |-> <<2, 0>>] }

\* header rows of growth tables
GrowthHeaders ==
    { <<<<"C", "u", "r", "r", "e", "n", "c", "y">>, <<"C", "u", "r", "r", "e", "n", "t", " ", "Q", "t", "r", ".">>, <<"N", "e", "x", "t", " ", "Q", "t", "r", ".">>, <<"C", "u", "r", "r", "e", "n", "t", " ", "Y", "e", "a", "r">>, <<"N", "e", "x", "t", " ", "Y", "e", "a", "r">>>>,
      <<<<"S", "y", "m", "b", "o", "l">>, <<"N", "e", "x", "t", " ", "Y", "e", "a", "r">>>>,
      <<<<>>, <<"C", "u", "r", "r", "e", "n", "t", " ", "Y", "e", "a", "r", " ", "(", "2", "0", "2", "5", ")">>, <<"N", "e", "x", "t", " ", "Y", "e", "a", "r", " ", "(", "2", "0", "2", "6", ")">>>>,
      <<<<>>, <<"P", "r", "i", "c", "e">>>> }

\* data rows of growth tables
GrowthDataRows ==
    { <<<<"A", "A", "P", "L">>, <<"1", ".", "2">>, <<"1", ".", "3">>, <<"6", ".", "1">>, <<"8", ".", "4">>>>,
      <<<<"S", "&", "P", " ", "5", "0", "0">>, <<"0", ".", "1">>, <<"0", ".", "2">>, <<"0", ".", "3">>, <<"5", ".", "0">>>>,
      <<<<"a", "a", "p", "l">>, <<" ", "8", ".", "4", "%", " ">>>>,
      <<<<"A", "A", "P", "L">>, <<"N", "/", "A">>>>,
      <<<<"M", "S", "F", "T">>, <<"3", ".", "1">>, <<"-", "4">>>>,
      <<<<"S", "e", "c", "t", "o", "r">>, <<"4", ".", "0">>>>,
      <<<<"I", "n", "d", "u", "s", "t", "r", "y">>, <<"4", ".", "5">>>> }

GrowthTables ==
    {<<>>} \cup {<<h>> \o rows : h \in GrowthHeaders,
                                 rows \in SeqsUpTo(GrowthDataRows, MaxGrowthRows)}

UnitExtractFromGrowthTable ==
    /\ pc = "idle"
    /\ \E table \in GrowthTables, sym \in UnitSymbols :
          /\ arg' = <<table, sym>>
          /\ out' = GrowthTableResult(table, sym)
    /\ fn' = "_extract_from_growth_table"
    /\ pc' = "unit"
    /\ UNCHANGED <<symbol, record, smetrics, gmetrics, exc, sOutcome, gOutcome, priceBy,
                   matched>>

\* dividend texts: "<number> (<number>%)" with and without the space and the
\* percent sign, and texts of other forms
DividendTexts ==
    {n1.text \o sep \o <<"(">> \o n2.text \o pct \o <<")">> :
        n1 \in UnitNumbers, n2 \in UnitNumbers, sep \in {<<>>, <<" ">>}, pct \in {<<>>, <<"%">>}}
    \cup {<<"1", ".", "4", "5", "%">>, <<"N", "/", "A", " ", "(", "N", "/", "A", ")">>, <<"D", "i", "v", "i", "d", "e", "n", "d", " ", "0", ".", "9", "6", " ", "Y", "i", "e", "l", "d", " ", "1", ".", "4", "5", "%">>, <<"-", "0", ".", "9", "6", " ", "(", "1", ".", "4", "5", "%", ")">>,
          <<"1", ",", "0", "0", "0", ".", "5", " ", "(", "2", "%", ")">>, <<>>}

\* the dict _parse_dividend_info is handed
DividendDicts ==
    { EmptyDict,
      [forward_dividend_rate |-> <<1, 0>>, forward_dividend_yield |-> <<5, 1>>],
      [forward_dividend_rate |-> <<0, 0>>, pe_ratio_ttm |-> <<285, 1>>] }

UnitParseDividendInfo ==
    /\ pc = "idle"
    /\ \E dividend_text \in DividendTexts, metrics \in DividendDicts :
          /\ arg' = <<dividend_text, metrics>>
          /\ out' = ParseDividendInfo(dividend_text, metrics)
    /\ fn' = "_parse_dividend_info"
    /\ pc' = "unit"
    /\ UNCHANGED <<symbol, record, smetrics, gmetrics, exc, sOutcome, gOutcome, priceBy,
                   matched>>

\* labels of P/E items; some hold digits of their own
PePrefixes == {<<"P", "E", " ", "R", "a", "t", "i", "o", " ", "(", "T", "T", "M", ")", " ">>, <<"1", " ", "P", "/", "E", " ", "R", "a", "t", "i", "o", " ", "(", "t", "r", "a", "i", "l", "i", "n", "g", ")", " ">>, <<"5", "2", "w", "k", " ", "p", "/", "e", " ", "r", "a", "t", "i", "o", " ", "t", "t", "m", ":", " ", "$">>}

\* quote-statistics items: P/E items "<label><number>", and others
UnitStatItems ==
    {[text |-> p \o n.text, raises |-> FALSE] : p \in PePrefixes, n \in UnitNumbers}
    \cup { [text |-> <<"P", "E", " ", "R", "a", "t", "i", "o", " ", "(", "T", "T", "M", ")", " ", "N", "/", "A">>, raises |-> FALSE],
           [text |-> <<"P", "E", " ", "R", "a", "t", "i", "o", " ", "9", ".", "9">>, raises |-> FALSE],
           [text |-> <<"F", "o", "r", "w", "a", "r", "d", " ", "D", "i", "v", "i", "d", "e", "n", "d", " ", "&", " ", "Y", "i", "e", "l", "d", " ", "0", ".", "9", "6", " ", "(", "1", ".", "4", "5", "%", ")">>, raises |-> FALSE],
           [text |-> <<"P", "E", " ", "R", "a", "t", "i", "o", " ", "(", "T", "T", "M", ")", " ", "9", ".", "9">>, raises |-> TRUE] }

\* negative numbers as they are written, with the float each one is
UnitNegatives ==
    { [text |-> <<"-", "1", "2", ".", "5">>, val |-> <<-125, 1>>],
      [text |-> <<"-", "3">>, val |-> <<-3, 0>>] }

\* P/E items "<label><negative number>"
UnitNegativeStatItems ==
    {[text |-> p \o n.text, raises |-> FALSE] : p \in PePrefixes, n \in UnitNegatives}

UnitExtractFromQuoteStats ==
    /\ pc = "idle"
    /\ \E items \in SeqsUpTo(UnitStatItems, MaxUnitItems)
                       \cup {<<i>> : i \in UnitNegativeStatItems},
          metrics \in {EmptyDict, [pe_ratio_ttm |-> <<-125, 1>>]} :
          /\ arg' = <<items, metrics>>
          /\ out' = ExtractFromQuoteStats(items, metrics)
    /\ fn' = "_extract_from_quote_stats"
    /\ pc' = "unit"
    /\ UNCHANGED <<symbol, record, smetrics, gmetrics, exc, sOutcome, gOutcome, priceBy,
                   matched>>

\* clean numeric strings, with the float each one is (None: not a number)
NumericClean ==
    { [text |-> <<"1", "2", "3", "4", ".", "5", "6">>, val |-> <<123456, 2>>],
      [text |-> <<"-", "3", ".", "5">>, val |-> <<-35, 1>>],
      [text |-> <<"0">>, val |-> <<0, 0>>],
      [text |-> <<".", "5">>, val |-> <<5, 1>>],
      [text |-> <<"7", ".">>, val |-> <<7, 0>>],
      [text |-> <<"-", "1", "2">>, val |-> <<-12, 0>>],
      [text |-> <<"-">>, val |-> None],
      [text |-> <<"-", ".">>, val |-> None] }

\* t with `mid` put after its first character, between pre and suf
Decorate(t, pre, mid, suf) ==
    LET k == IF Len(t) = 0 THEN 0 ELSE 1
    IN  pre \o SubSeq(t, 1, k) \o mid \o SubSeq(t, k + 1, Len(t)) \o suf

DecorationsBefore == {<<>>, <<"$">>, <<" ", "(">>, <<"U", "S", "D", " ">>}

DecorationsInside == {<<>>, <<",">>}

DecorationsAfter == {<<>>, <<"%">>, <<")">>, <<" ">>}

\* texts handed to the normalizers: decorated numbers, sentinel tokens in
\* several letter cases, and malformed texts
NormalizerTexts ==
    {Decorate(n.text, pre, mid, suf) :
        n \in NumericClean, pre \in DecorationsBefore,
        mid \in DecorationsInside, suf \in DecorationsAfter}
    \cup {<<"N", "/", "A">>, <<"n", "/", "a">>, <<"N", "A">>, <<"N", "a">>, <<"-", "-">>, <<>>, <<"N", "U", "L", "L">>, <<"n", "u", "l", "l">>, <<"n", "U", "l", "L">>}
    \cup {<<"1", ".", "2", ".", "3">>, <<"1", "-", "2">>, <<"-", "-", "5">>, <<"5", "-">>, <<".">>, <<"a", "b", "c">>, <<" ", "N", "/", "A", " ">>, <<".", ".", "1">>}

UnitCleanNumericValue ==
    /\ pc = "idle"
    /\ \E value \in NormalizerTexts :
          /\ arg' = value
          /\ out' = CleanNumericRun(value)
    /\ fn' = "_clean_numeric_value"
    /\ pc' = "unit"
    /\ UNCHANGED <<symbol, record, smetrics, gmetrics, exc, sOutcome, gOutcome, priceBy,
                   matched>>

UnitCleanPercentageValue ==
    /\ pc = "idle"
    /\ \E value \in NormalizerTexts :
          /\ arg' = value
          /\ out' = CleanPercentageRun(value)
    /\ fn' = "_clean_percentage_value"
    /\ pc' = "unit"
    /\ UNCHANGED <<symbol, record, smetrics, gmetrics, exc, sOutcome, gOutcome, priceBy,
                   matched>>

\* longest list of symbols of a batch
MaxSymbols == 2

\* symbols of a batch: two casings of one ticker, and another ticker
BatchSymbols == Symbols \cup {<<"A", "a", "p", "l">>}

\* what _get_summary_metrics returns to a call of a batch
BatchSummaryResults ==
    { FailedStatus("Failed to retrieve summary data: Status code ", "404"),
      [current_price |-> <<20118, 2>>, pe_ratio_ttm |-> <<285, 1>>] }

\* what _get_growth_estimates returns to a call of a batch
BatchGrowthResults ==
    { EmptyDict, [growth_estimate_next_year |-> <<84, 1>>] }

\* the record get_key_metrics returns, given what its two phases return
GetKeyMetricsResult(sym, summary_metrics, growth_metrics) ==
    Update(Update(NewRecord(sym), summary_metrics), growth_metrics)

BatchKeyAsGiven(sym) == sym

\* the key of `results[symbol.upper()] = ...`
BatchKey(sym) == Upper(sym)

\* get_multiple_stocks_metrics over symbols, call i of get_key_metrics having
\* the phase results phases[i]; results is the dict built so far
RECURSIVE GetMultipleStocksMetrics(_, _, _)
GetMultipleStocksMetrics(symbols, phases, results) ==
    IF symbols = <<>> THEN results
    ELSE GetMultipleStocksMetrics(
             Tail(symbols), Tail(phases),
             Put(results, BatchKey(Head(symbols)),
                 GetKeyMetricsResult(Head(symbols), Head(phases)[1], Head(phases)[2])))

UnitGetMultipleStocksMetrics ==
    /\ pc = "idle"
    /\ \E symbols \in SeqsUpTo(BatchSymbols, MaxSymbols) :
          \E phases \in [DOMAIN symbols -> BatchSummaryResults \X BatchGrowthResults] :
             /\ arg' = <<symbols, phases>>
             /\ out' = GetMultipleStocksMetrics(symbols, phases, EmptyDict)
    /\ fn' = "get_multiple_stocks_metrics"
    /\ pc' = "unit"
    /\ UNCHANGED <<symbol, record, smetrics, gmetrics, exc, sOutcome, gOutcome, priceBy,
                   matched>>

\* texts of the PE_RATIO-value element in a unit run
UnitPeTexts == PeTexts \cup {n.text : n \in UnitNegatives}

UnitExtractByTestid ==
    /\ pc = "idle"
    /\ \E pe \in Opt(UnitPeTexts), fwd \in Opt(FwdTexts), td \in Opt(TdTexts) :
          /\ arg' = <<<<pe, fwd, td>>, EmptyDict>>
          /\ out' = ExtractByTestid(<<pe, fwd, td>>, 4, EmptyDict)
    /\ fn' = "_extract_by_testid"
    /\ pc' = "unit"
    /\ UNCHANGED <<symbol, record, smetrics, gmetrics, exc, sOutcome, gOutcome, priceBy,
                   matched>>

\* table rows "<P/E label>", "<negative number>"
UnitNegativeRows ==
    {[cells |-> <<label, n.text>>, raises |-> FALSE] :
        label \in {<<"P", "E", " ", "R", "a", "t", "i", "o", " ", "(", "T", "T", "M", ")">>, <<"T", "r", "a", "i", "l", "i", "n", "g", " ", "P", "/", "E", " ", "R", "a", "t", "i", "o">>}, n \in UnitNegatives}

UnitExtractFromTables ==
    /\ pc = "idle"
    /\ \E rows \in SeqsUpTo(TableRows, MaxUnitItems) \cup {<<r>> : r \in UnitNegativeRows} :
          /\ arg' = <<rows, EmptyDict>>
          /\ out' = ExtractFromTables(rows, EmptyDict)
    /\ fn' = "_extract_from_tables"
    /\ pc' = "unit"
    /\ UNCHANGED <<symbol, record, smetrics, gmetrics, exc, sOutcome, gOutcome, priceBy,
                   matched>>

NextUnit ==
    \/ UnitExtractFromGrowthTable
    \/ UnitParseDividendInfo
    \/ UnitExtractFromQuoteStats
    \/ UnitCleanNumericValue
    \/ UnitCleanPercentageValue
    \/ UnitGetMultipleStocksMetrics
    \/ UnitExtractByTestid
    \/ UnitExtractFromTables

SpecUnit == Init /\ [][NextUnit]_vars

-----------------------------------------------------------------------------
(* Properties of the unit runs *)

\* the first header cell of the table naming `word`, or 0
HeaderNaming(table, word) ==
    IF table = <<>> THEN 0
    ELSE LET hits == {j \in DOMAIN table[1] : Contains(word, Lower(Strip(table[1][j])))}
         IN  IF hits = {} THEN 0 ELSE CHOOSE j \in hits : \A k \in hits : j <= k

\* the first row with a cell in column j whose first cell is the symbol, or 0
SymbolRow(table, sym, j) ==
    LET hits == {i \in DOMAIN table :
                    Len(table[i]) >= j /\ Len(table[i]) >= 1
                    /\ Upper(Strip(table[i][1])) = Upper(sym)}
    IN  IF hits = {} THEN 0 ELSE CHOOSE i \in hits : \A k \in hits : i <= k

IsSentinelCell(t) ==
    Strip(t) = <<>> \/ Upper(Strip(t)) \in {<<"N", "/", "A">>, <<"N", "A">>, <<"-", "-">>}

IsBenchmarkCell(t) ==
    \E w \in {<<"S", "&", "P">>, <<"5", "0", "0">>, <<"S", "E", "C", "T", "O", "R">>, <<"I", "N", "D", "U", "S", "T", "R", "Y">>} : Contains(w, Upper(Strip(t)))

\* a first cell the extractor takes for a company: letters only, at most six
LooksLikeCompany(t) == Len(Strip(t)) <= 6 /\ IsAlpha(Strip(t)) /\ ~IsBenchmarkCell(t)

C9_RateThenYield ==
    fn = "_parse_dividend_info"
        => /\ \A n1 \in UnitNumbers, n2 \in UnitNumbers :
                 arg[1] = n1.text \o <<" ", "(">> \o n2.text \o <<"%", ")">>
                    => /\ Get(out, "forward_dividend_rate") = n1.val
                       /\ Get(out, "forward_dividend_yield") = n2.val
           /\ arg[1] = <<"0", ".", "9", "6", " ", "(", "1", ".", "4", "5", "%", ")">>
                 => /\ Get(out, "forward_dividend_rate") = <<96, 2>>
                    /\ Get(out, "forward_dividend_yield") = <<145, 2>>

C9_Witness ==
    /\ fn = "_parse_dividend_info"
    /\ arg[1] = <<"0", ".", "9", "6", " ", "(", "1", ".", "4", "5", "%", ")">>
    /\ Get(arg[2], "forward_dividend_rate") = <<1, 0>>
    /\ Get(out, "forward_dividend_rate") = <<96, 2>>
    /\ Get(out, "forward_dividend_yield") = <<145, 2>>

\* a P/E item "<label><number>" that is read without raising
IsPeItem(item) ==
    ~item.raises /\ \E p \in PePrefixes, n \in UnitNumbers : item.text = p \o n.text

\* C10: in the quote-statistics scan, the P/E taken from an item naming the
\* P/E ratio and "ttm" or "trailing" is the last numeric token of its text,
\* not the first; "PE Ratio (TTM) 28.5" gives 28.5.  (Of several such items
\* the last one read decides.)
C10_LastNumericToken ==
    fn = "_extract_from_quote_stats"
        => LET items == arg[1]
           IN  /\ \A i \in DOMAIN items, p \in PePrefixes, n \in UnitNumbers :
                     ( /\ ~items[i].raises
                       /\ items[i].text = p \o n.text
                       /\ \A k \in (i + 1)..Len(items) : ~IsPeItem(items[k]) )
                        => Get(out, "pe_ratio_ttm") = n.val
               /\ (Len(items) = 1 /\ ~items[1].raises /\ items[1].text = <<"P", "E", " ", "R", "a", "t", "i", "o", " ", "(", "T", "T", "M", ")", " ", "2", "8", ".", "5">>)
                     => Get(out, "pe_ratio_ttm") = <<285, 1>>

C10_Witness ==
    /\ fn = "_extract_from_quote_stats"
    /\ arg[1] = <<[text |-> <<"1", " ", "P", "/", "E", " ", "R", "a", "t", "i", "o", " ", "(", "t", "r", "a", "i", "l", "i", "n", "g", ")", " ", "2", "8", ".", "5">>, raises |-> FALSE]>>
    /\ Get(arg[2], "pe_ratio_ttm") = <<-125, 1>>
    /\ Get(out, "pe_ratio_ttm") = <<285, 1>>

\* a float of the model, or None
IsNumberOrAbsent(v) == v = None \/ (Len(v) = 2 /\ v[1] \in Int /\ v[2] \in Nat)

\* C11: on every text both normalizers return a number or absent and raise
\* nothing, and on each sentinel token ("N/A", "NA", "--", "", "NULL", in any
\* letter case) both return absent.
C11_NormalizersNeverRaise ==
    fn \in {"_clean_numeric_value", "_clean_percentage_value"}
        => /\ out.raised = ""
           /\ IsNumberOrAbsent(out.value)
           /\ Lower(arg) \in {<<"n", "/", "a">>, <<"n", "a">>, <<"-", "-">>, <<>>, <<"n", "u", "l", "l">>} => out.value = None

C11_Witness ==
    /\ fn = "_clean_percentage_value"
    /\ arg = <<"1", ".", "2", ".", "3">>
    /\ out = [raised |-> "", value |-> None]

\* the characters that decorate a number
DecorationChars == {"$", ",", " ", "%", "(", ")", "U", "S", "D"}

NotDecoration(c) == c \notin DecorationChars

\* the text with its decoration removed
Undecorated(t) == SelectSeq(t, NotDecoration)

\* digits with an optional leading minus and an optional decimal point
NumericShape(u) ==
    LET body == IF Len(u) > 0 /\ u[1] = "-" THEN Tail(u) ELSE u
    IN  /\ \A i \in DOMAIN body : IsDigit(body[i]) \/ body[i] = "."
        /\ Cardinality({i \in DOMAIN body : body[i] = "."}) <= 1

\* C12: on a text of digits, an optional leading minus, an optional decimal
\* point and decoration, _clean_numeric_value returns what it returns on the
\* text without the decoration, and on a clean numeric string it returns
\* that number.
C12_DecorationIgnored ==
    fn = "_clean_numeric_value"
        => /\ NumericShape(Undecorated(arg))
                 => out.value = CleanNumericValue(Undecorated(arg))
           /\ \A n \in NumericClean :
                 /\ arg = n.text => out.value = n.val
                 /\ (\E pre \in DecorationsBefore, mid \in DecorationsInside,
                        suf \in DecorationsAfter : arg = Decorate(n.text, pre, mid, suf))
                       => out.value = n.val

C12_Witness ==
    /\ fn = "_clean_numeric_value"
    /\ arg = <<"$", "1", ",", "2", "3", "4", ".", "5", "6", "%">>
    /\ out.value = <<123456, 2>>

\* C13: the mapping get_multiple_stocks_metrics returns has an entry under
\* the upper-cased form of every input symbol (and under nothing else), and
\* the record under a key has that key as its symbol; ["aapl", "MSFT"] gives
\* the keys "AAPL" and "MSFT".
C13_BatchKeyedByUpper ==
    fn = "get_multiple_stocks_metrics"
        => LET symbols == arg[1]
           IN  /\ DOMAIN out = {Upper(symbols[i]) : i \in DOMAIN symbols}
               /\ \A k \in DOMAIN out :
                     /\ DOMAIN out[k] = RecordKeys
                     /\ out[k]["symbol"] = k
               /\ symbols = <<<<"a", "a", "p", "l">>, <<"M", "S", "F", "T">>>> => DOMAIN out = {<<"A", "A", "P", "L">>, <<"M", "S", "F", "T">>}
               /\ symbols = <<<<"A", "a", "p", "l">>, <<"a", "a", "p", "l">>>> => DOMAIN out = {<<"A", "A", "P", "L">>}

C13_Witness ==
    /\ fn = "get_multiple_stocks_metrics"
    /\ arg[1] = <<<<"a", "a", "p", "l">>, <<"M", "S", "F", "T">>>>
    /\ DOMAIN out = {<<"A", "A", "P", "L">>, <<"M", "S", "F", "T">>}
    /\ Get(out[<<"A", "A", "P", "L">>], "symbol") = <<"A", "A", "P", "L">>
    /\ Get(out[<<"M", "S", "F", "T">>], "error") # None

\* the target column: the first header cell naming a column keyword, or 0
TargetColumn(table) ==
    LET hits == {HeaderNaming(table, w) :
                    w \in {<<"n", "e", "x", "t", " ", "y", "e", "a", "r">>, <<"n", "e", "x", "t", " ", "5", " ", "y", "e", "a", "r", "s">>, <<"2", "0", "2", "5">>, <<"2", "0", "2", "4">>}} \ {0}
    IN  IF hits = {} THEN 0 ELSE CHOOSE j \in hits : \A k \in hits : j <= k

\* the company rows that have a cell in column col which is no sentinel
UsableRows(table, sym, col) ==
    {i \in DOMAIN table :
        /\ Len(table[i]) >= col
        /\ Upper(Strip(table[i][1])) = Upper(sym) \/ LooksLikeCompany(table[i][1])
        /\ ~IsSentinelCell(table[i][col])}

C18_NegativePeKept ==
    \A n \in UnitNegatives :
        /\ (fn = "_extract_by_testid" /\ arg[1][1] = <<n.text>>)
              => Get(out, "pe_ratio_ttm") = n.val
        /\ (fn = "_extract_from_quote_stats" /\ Len(arg[1]) = 1
                /\ \E p \in PePrefixes : arg[1][1] = [text |-> p \o n.text, raises |-> FALSE])
              => Get(out, "pe_ratio_ttm") = n.val
        /\ (fn = "_extract_from_tables" /\ Len(arg[1]) = 1
                /\ \E label \in {<<"P", "E", " ", "R", "a", "t", "i", "o", " ", "(", "T", "T", "M", ")">>, <<"T", "r", "a", "i", "l", "i", "n", "g", " ", "P", "/", "E", " ", "R", "a", "t", "i", "o">>} :
                      arg[1][1] = [cells |-> <<label, n.text>>, raises |-> FALSE])
              => Get(out, "pe_ratio_ttm") = n.val

\* the identifier lookup and the table scan do keep the sign
SignKeptOutsideQuoteStats ==
    fn # "_extract_from_quote_stats" => C18_NegativePeKept

=============================================================================
